---------------------------- MODULE Spec2Model ----------------------------
(***************************************************************************)
(* ArrayLockFreeQueue<ELEM_T, Q_SIZE, false>: the circular-array lock-free *)
(* queue, single-producer push and multi-consumer pop, with the base       *)
(* class's countToIndex, size and full.  Every shared read, slot access,   *)
(* atomic increment and CAS is one step of the thread that performs it.    *)
(***************************************************************************)
EXTENDS Integers, Sequences, FiniteSets, TLC

\* ------------------------------------------------------------------ bounds

\* Template parameter Q_SIZE: the length of m_theQueue.
Q_SIZE == 3

\* Number of consumer threads calling pop.
NumConsumers == 2

\* Successful pushes per behaviour of the concurrent specification Spec.
MaxPush == 3

\* Successful pushes per behaviour of the concurrent specification SpecCount.
MaxPushCount == 2

\* Successful pushes while a queue is pre-loaded (SpecPreload).
MaxLoad == 3

\* Completed calls per behaviour of the recorded sequential runs (SpecHist).
MaxOps == 6

\* Successful pushes per behaviour of the long sequential runs (SpecSeq).
MaxSeqPush == 20

\* Successful pushes per behaviour of the concurrent runs with an observer
\* (SpecObs).
MaxPushObs == 2

\* Successful pushes per behaviour of the concurrent runs that reuse the
\* slots (SpecSlot).
MaxPushSlot == 4

\* Successful pushes per behaviour of the fair concurrent runs (SpecFair).
MaxPushFair == 2

\* Successful pushes per behaviour of the runs with one consumer (SpecOne).
MaxPushOne == 18

\* Successful pushes per behaviour of the sequential runs with an observer
\* (SpecLap).
MaxPushLap == 5

\* Width, in bits, of the counters of the model (uint32_t in the source).
IndexBits == 4

\* --------------------------------------------------------------- constants

\* uint32_t values are 0 .. UINT_MOD - 1.
UINT_MOD == 2 ^ IndexBits

\* The one thread that calls push (thread 0; the consumers are 1 .. NumConsumers).
Producer == 0

Consumers == 1 .. NumConsumers

\* The thread that calls size() and full().
Observer == NumConsumers + 1

Threads == {Producer} \cup Consumers \cup {Observer}

Slots == 0 .. (Q_SIZE - 1)

\* The content of a slot of m_theQueue that was never written.
Uninitialised == 0 - 1

\* What reading such a slot may give: a pattern no push stores (0) or one
\* that equals a pushed element (1).
UninitValues == {0, 1}

VARIABLES
    m_writeIndex,             \* Base_t::m_writeIndex
    m_readIndex,              \* Base_t::m_readIndex
    m_theQueue,               \* Base_t::m_theQueue, a function on Slots
    m_count,                  \* Base_t::m_count (LOCK_FREE_Q_KEEP_REAL_SIZE)
    keepRealSize,             \* whether LOCK_FREE_Q_KEEP_REAL_SIZE is defined
    pc,                       \* each thread's position in its call
    currentWriteIndex,        \* local of push (producer) and of size/full (observer)
    currentMaximumReadIndex,  \* local of pop, per consumer
    currentReadIndex,         \* local of push, pop, size and full, per thread
    a_data,                   \* push's argument, pop's out-parameter
    ret,                      \* each thread's last boolean return: "none", "true", "false"
    sizeRet,                  \* what the last size() returned
    nPublished,               \* history: the number of elements published
    nClaimed,                 \* history: the number of successful CAS of pop
    pushed,                   \* history: the elements published, in push order
    popped,                   \* history: the elements of successful pops, in CAS order
    liveAtRead,               \* history: published minus claimed when push read m_readIndex
    sawEmpty,                 \* history: per consumer, the queue was empty during its pop
    dirty,                    \* history: per thread, its call wrote shared state
    hist,                     \* history: the completed calls, in order (SpecHist)
    refFifo,                  \* the reference bounded FIFO (SpecSeq)
    refExpect,                \* what the reference returned for the last call (SpecSeq)
    racing,                   \* SpecPreload: the consumers' race has started
    preload,                  \* SpecPreload: the elements in the queue when it started
    raceDone,                 \* SpecPreload: per consumer, it has seen pop fail
    everFull,                 \* history: Q_SIZE - 1 elements were live at some instant
    obsMaxLive,               \* history: the most elements live during the last size()/full()
    overwritten,              \* history: per consumer, push stored into the slot it copied
    casSince,                 \* history: per consumer, another pop's CAS succeeded since it read m_readIndex
    popTick                   \* history: flips whenever a pop call returns

queueVars == <<m_writeIndex, m_readIndex, m_theQueue, m_count>>

localVars == <<pc, currentWriteIndex, currentMaximumReadIndex, currentReadIndex,
               a_data, ret, sizeRet>>

countVars == <<nPublished, nClaimed>>

histVars == <<pushed, popped>>

raceVars == <<racing, preload, raceDone>>

refVars == <<refFifo, refExpect>>

obsVars == <<everFull, obsMaxLive>>

popVars == <<overwritten, casSince, popTick>>

vars == <<queueVars, keepRealSize, localVars, countVars, histVars, liveAtRead, sawEmpty,
          dirty, hist, refVars, raceVars, obsVars, popVars>>

\* ---------------------------------------------------------- pure functions

\* uint32_t arithmetic: x + 1 with unsigned wraparound.
Inc(x) == (x + 1) % UINT_MOD

\* uint32_t arithmetic: x - 1 with unsigned wraparound.
Dec(x) == (x + UINT_MOD - 1) % UINT_MOD

countToIndex(a_count) == a_count % Q_SIZE

\* Mutant of SeesFull: the successor is taken twice, so that the queue is
\* reported full one element early.
SeesFullOneEarly(w, r) == countToIndex(Inc(Inc(w))) = countToIndex(r)

\* push's and full()'s test "the queue is full".
SeesFull(w, r) == countToIndex(Inc(w)) = countToIndex(r)

\* Mutant of SeesEmpty: the read index is compared with the successor of
\* the write index.
SeesEmptyOffByOne(r, w) == countToIndex(r) = countToIndex(Inc(w))

\* pop's test "the queue is empty".
SeesEmpty(r, w) == countToIndex(r) = countToIndex(w)

\* Mutant of SizeOf: the distance between the snapshots, whichever is larger.
SizeOfDistance(w, r) == IF w >= r THEN w - r ELSE r - w

\* size() without m_count, in uint32_t arithmetic.
SizeOf(w, r) ==
    IF w >= r THEN w - r
              ELSE (Q_SIZE + w + UINT_MOD - r) % UINT_MOD

\* ------------------------------------------------------------ constructor

InitQueue ==
    /\ m_writeIndex = 0
    /\ m_readIndex = 0
    /\ m_theQueue = [s \in Slots |-> Uninitialised]
    /\ m_count = 0

InitThreads ==
    /\ pc = [t \in Threads |-> "idle"]
    /\ currentWriteIndex = [t \in {Producer, Observer} |-> 0]
    /\ currentMaximumReadIndex = [c \in Consumers |-> 0]
    /\ currentReadIndex = [t \in Threads |-> 0]
    /\ a_data = [t \in {Producer} \cup Consumers |-> 0]
    /\ ret = [t \in Threads |-> "none"]
    /\ sizeRet = 0

InitHistory ==
    /\ nPublished = 0
    /\ nClaimed = 0
    /\ pushed = <<>>
    /\ popped = <<>>
    /\ liveAtRead = 0
    /\ sawEmpty = [c \in Consumers |-> FALSE]
    /\ dirty = [t \in Threads |-> FALSE]
    /\ hist = <<>>
    /\ refFifo = <<>>
    /\ refExpect = [t |-> Observer, ok |-> "none", val |-> 0]
    /\ racing = FALSE
    /\ preload = <<>>
    /\ raceDone = [c \in Consumers |-> FALSE]
    /\ everFull = FALSE
    /\ obsMaxLive = 0
    /\ overwritten = [c \in Consumers |-> FALSE]
    /\ casSince = [c \in Consumers |-> FALSE]
    /\ popTick = FALSE

\* ------------------------------------------------------------------- push

\* push returns: its locals die with the frame.
PushReturn(ok) ==
    /\ pc' = [pc EXCEPT ![Producer] = "idle"]
    /\ ret' = [ret EXCEPT ![Producer] = ok]
    /\ currentWriteIndex' = [currentWriteIndex EXCEPT ![Producer] = 0]
    /\ currentReadIndex' = [currentReadIndex EXCEPT ![Producer] = 0]
    /\ a_data' = [a_data EXCEPT ![Producer] = 0]

\* push(v) is called; currentWriteIndex = m_writeIndex.
PushReadWrite(v) ==
    /\ pc[Producer] = "idle"
    /\ pc' = [pc EXCEPT ![Producer] = "p_readR"]
    /\ a_data' = [a_data EXCEPT ![Producer] = v]
    /\ ret' = [ret EXCEPT ![Producer] = "none"]
    /\ currentWriteIndex' = [currentWriteIndex EXCEPT ![Producer] = m_writeIndex]
    /\ UNCHANGED <<queueVars, currentMaximumReadIndex, currentReadIndex, sizeRet>>

\* Mutant of PushReadRead: the element is stored before the test for full.
PushStoreThenCheck ==
    /\ pc[Producer] = "p_readR"
    /\ m_theQueue' = [m_theQueue EXCEPT
                        ![countToIndex(currentWriteIndex[Producer])] = a_data[Producer]]
    /\ IF SeesFull(currentWriteIndex[Producer], m_readIndex)
          THEN PushReturn("false")
          ELSE /\ pc' = [pc EXCEPT ![Producer] = "p_inc"]
               /\ currentReadIndex' = [currentReadIndex EXCEPT ![Producer] = m_readIndex]
               /\ UNCHANGED <<currentWriteIndex, a_data, ret>>
    /\ UNCHANGED <<m_writeIndex, m_readIndex, m_count, currentMaximumReadIndex,
                   sizeRet>>

\* currentReadIndex = m_readIndex; if the queue is full, return false.
PushReadRead ==
    /\ pc[Producer] = "p_readR"
    /\ IF SeesFull(currentWriteIndex[Producer], m_readIndex)
          THEN PushReturn("false")
          ELSE /\ pc' = [pc EXCEPT ![Producer] = "p_store"]
               /\ currentReadIndex' = [currentReadIndex EXCEPT ![Producer] = m_readIndex]
               /\ UNCHANGED <<currentWriteIndex, a_data, ret>>
    /\ UNCHANGED <<queueVars, currentMaximumReadIndex, sizeRet>>

\* m_theQueue[countToIndex(currentWriteIndex)] = a_data.
PushStore ==
    /\ pc[Producer] = "p_store"
    /\ m_theQueue' = [m_theQueue EXCEPT
                        ![countToIndex(currentWriteIndex[Producer])] = a_data[Producer]]
    /\ pc' = [pc EXCEPT ![Producer] = "p_inc"]
    /\ UNCHANGED <<m_writeIndex, m_readIndex, m_count, currentWriteIndex,
                   currentMaximumReadIndex, currentReadIndex, a_data, ret, sizeRet>>

\* AtomicAdd(&m_writeIndex, 1); without m_count, return true.
PushPublish ==
    /\ pc[Producer] = "p_inc"
    /\ m_writeIndex' = Inc(m_writeIndex)
    /\ IF keepRealSize
          THEN /\ pc' = [pc EXCEPT ![Producer] = "p_count"]
               /\ UNCHANGED <<currentWriteIndex, currentReadIndex, a_data, ret>>
          ELSE PushReturn("true")
    /\ UNCHANGED <<m_readIndex, m_theQueue, m_count, currentMaximumReadIndex,
                   sizeRet>>

\* AtomicAdd(&m_count, 1); return true.
PushCount ==
    /\ pc[Producer] = "p_count"
    /\ m_count' = Inc(m_count)
    /\ PushReturn("true")
    /\ UNCHANGED <<m_writeIndex, m_readIndex, m_theQueue, currentMaximumReadIndex,
                   sizeRet>>

\* -------------------------------------------------------------------- pop

\* pop returns: its locals die with the frame, a_data stays with the caller.
PopReturn(c, ok) ==
    /\ pc' = [pc EXCEPT ![c] = "idle"]
    /\ ret' = [ret EXCEPT ![c] = ok]
    /\ currentMaximumReadIndex' = [currentMaximumReadIndex EXCEPT ![c] = 0]
    /\ currentReadIndex' = [currentReadIndex EXCEPT ![c] = 0]

\* pop(a_data) is called (the caller passes a fresh a_data), or its loop
\* starts over; currentMaximumReadIndex = m_writeIndex.
PopReadWrite(c) ==
    /\ pc[c] \in {"idle", "c_retry"}
    /\ pc' = [pc EXCEPT ![c] = "c_readR"]
    /\ ret' = [ret EXCEPT ![c] = "none"]
    /\ a_data' = [a_data EXCEPT ![c] = IF pc[c] = "idle" THEN 0 ELSE @]
    /\ currentMaximumReadIndex' = [currentMaximumReadIndex EXCEPT ![c] = m_writeIndex]
    /\ UNCHANGED <<queueVars, currentWriteIndex, currentReadIndex, sizeRet>>

\* Mutant of PopReadRead: on an empty queue the loop starts over, where pop
\* returns false.
PopReadReadSpins(c) ==
    /\ pc[c] = "c_readR"
    /\ IF SeesEmpty(m_readIndex, currentMaximumReadIndex[c])
          THEN /\ pc' = [pc EXCEPT ![c] = "c_retry"]
               /\ UNCHANGED <<currentMaximumReadIndex, currentReadIndex, ret>>
          ELSE /\ pc' = [pc EXCEPT ![c] = "c_copy"]
               /\ currentReadIndex' = [currentReadIndex EXCEPT ![c] = m_readIndex]
               /\ UNCHANGED <<currentMaximumReadIndex, ret>>
    /\ UNCHANGED <<queueVars, currentWriteIndex, a_data, sizeRet>>

\* currentReadIndex = m_readIndex; if the queue is empty, return false.
PopReadRead(c) ==
    /\ pc[c] = "c_readR"
    /\ IF SeesEmpty(m_readIndex, currentMaximumReadIndex[c])
          THEN PopReturn(c, "false")
          ELSE /\ pc' = [pc EXCEPT ![c] = "c_copy"]
               /\ currentReadIndex' = [currentReadIndex EXCEPT ![c] = m_readIndex]
               /\ UNCHANGED <<currentMaximumReadIndex, ret>>
    /\ UNCHANGED <<queueVars, currentWriteIndex, a_data, sizeRet>>

\* What reading slot s gives: its content, or any value if it was never written.
SlotRead(s) ==
    IF m_theQueue[s] = Uninitialised THEN UninitValues ELSE {m_theQueue[s]}

\* a_data = m_theQueue[countToIndex(currentReadIndex)].
PopCopy(c) ==
    /\ pc[c] = "c_copy"
    /\ \E v \in SlotRead(countToIndex(currentReadIndex[c])) :
          a_data' = [a_data EXCEPT ![c] = v]
    /\ pc' = [pc EXCEPT ![c] = "c_cas"]
    /\ UNCHANGED <<queueVars, currentWriteIndex, currentMaximumReadIndex,
                   currentReadIndex, ret, sizeRet>>

\* Mutant of PopCasOk: a plain store of currentReadIndex + 1 in place of
\* the compare-and-swap.
PopStoreNoCompare(c) ==
    /\ pc[c] = "c_cas"
    /\ m_readIndex' = Inc(currentReadIndex[c])
    /\ IF keepRealSize
          THEN /\ pc' = [pc EXCEPT ![c] = "c_count"]
               /\ UNCHANGED <<currentMaximumReadIndex, currentReadIndex, ret>>
          ELSE PopReturn(c, "true")
    /\ UNCHANGED <<m_writeIndex, m_theQueue, m_count, currentWriteIndex, a_data,
                   sizeRet>>

\* CAS(&m_readIndex, currentReadIndex, currentReadIndex + 1) succeeds;
\* without m_count, return true.
PopCasOk(c) ==
    /\ pc[c] = "c_cas"
    /\ m_readIndex = currentReadIndex[c]
    /\ m_readIndex' = Inc(currentReadIndex[c])
    /\ IF keepRealSize
          THEN /\ pc' = [pc EXCEPT ![c] = "c_count"]
               /\ UNCHANGED <<currentMaximumReadIndex, currentReadIndex, ret>>
          ELSE PopReturn(c, "true")
    /\ UNCHANGED <<m_writeIndex, m_theQueue, m_count, currentWriteIndex, a_data,
                   sizeRet>>

\* Mutant of PopCasFail: the failed CAS stores currentReadIndex + 1 all the same.
PopCasFailStores(c) ==
    /\ pc[c] = "c_cas"
    /\ m_readIndex # currentReadIndex[c]
    /\ m_readIndex' = Inc(currentReadIndex[c])
    /\ pc' = [pc EXCEPT ![c] = "c_retry"]
    /\ UNCHANGED <<m_writeIndex, m_theQueue, m_count, currentWriteIndex,
                   currentMaximumReadIndex, currentReadIndex, a_data, ret, sizeRet>>

\* Mutant of PopCasFail: a CAS that may fail although m_readIndex is unchanged.
PopCasFailSpurious(c) ==
    /\ pc[c] = "c_cas"
    /\ pc' = [pc EXCEPT ![c] = "c_retry"]
    /\ UNCHANGED <<queueVars, currentWriteIndex, currentMaximumReadIndex,
                   currentReadIndex, a_data, ret, sizeRet>>

\* The CAS fails: keep looping to try again.
PopCasFail(c) ==
    /\ pc[c] = "c_cas"
    /\ m_readIndex # currentReadIndex[c]
    /\ pc' = [pc EXCEPT ![c] = "c_retry"]
    /\ UNCHANGED <<queueVars, currentWriteIndex, currentMaximumReadIndex,
                   currentReadIndex, a_data, ret, sizeRet>>

\* AtomicSub(&m_count, 1); return true.
PopCount(c) ==
    /\ pc[c] = "c_count"
    /\ m_count' = Dec(m_count)
    /\ PopReturn(c, "true")
    /\ UNCHANGED <<m_writeIndex, m_readIndex, m_theQueue, currentWriteIndex, a_data,
                   sizeRet>>

\* --------------------------------------------------------- size and full

ObserverReturn(ok) ==
    /\ pc' = [pc EXCEPT ![Observer] = "idle"]
    /\ ret' = [ret EXCEPT ![Observer] = ok]
    /\ currentWriteIndex' = [currentWriteIndex EXCEPT ![Observer] = 0]
    /\ currentReadIndex' = [currentReadIndex EXCEPT ![Observer] = 0]

\* size() is called: return m_count, or currentWriteIndex = m_writeIndex.
SizeCall ==
    /\ pc[Observer] = "idle"
    /\ IF keepRealSize
          THEN /\ sizeRet' = m_count
               /\ ObserverReturn("size")
          ELSE /\ pc' = [pc EXCEPT ![Observer] = "s_readR"]
               /\ ret' = [ret EXCEPT ![Observer] = "none"]
               /\ currentWriteIndex' = [currentWriteIndex EXCEPT ![Observer] = m_writeIndex]
               /\ sizeRet' = 0
               /\ UNCHANGED currentReadIndex
    /\ UNCHANGED <<queueVars, currentMaximumReadIndex, a_data>>

\* currentReadIndex = m_readIndex; return the difference.
SizeReadRead ==
    /\ pc[Observer] = "s_readR"
    /\ sizeRet' = SizeOf(currentWriteIndex[Observer], m_readIndex)
    /\ ObserverReturn("size")
    /\ UNCHANGED <<queueVars, currentMaximumReadIndex, a_data>>

\* full() is called: return m_count == Q_SIZE - 1, or
\* currentWriteIndex = m_writeIndex.
FullCall ==
    /\ pc[Observer] = "idle"
    /\ IF keepRealSize
          THEN ObserverReturn(IF m_count = Q_SIZE - 1 THEN "true" ELSE "false")
          ELSE /\ pc' = [pc EXCEPT ![Observer] = "f_readR"]
               /\ ret' = [ret EXCEPT ![Observer] = "none"]
               /\ currentWriteIndex' = [currentWriteIndex EXCEPT ![Observer] = m_writeIndex]
               /\ UNCHANGED currentReadIndex
    /\ sizeRet' = 0
    /\ UNCHANGED <<queueVars, currentMaximumReadIndex, a_data>>

\* currentReadIndex = m_readIndex; return whether the successor of the write
\* index meets the read index.
FullReadRead ==
    /\ pc[Observer] = "f_readR"
    /\ ObserverReturn(IF SeesFull(currentWriteIndex[Observer], m_readIndex)
                         THEN "true" ELSE "false")
    /\ UNCHANGED <<queueVars, currentMaximumReadIndex, a_data, sizeRet>>

\* ---------------------------------------------------------------- history
\* What the claims need remembered of a run.  Each is updated by the step of
\* thread t that the specification's next-state relation joins it to; the
\* program never reads any of it.

AllIdle == \A t \in Threads : pc[t] = "idle"

\* The step of thread t is push's AtomicAdd on m_writeIndex.
Publishes(t) == t = Producer /\ pc[t] = "p_inc"

\* The step of thread t is a successful CAS of pop on m_readIndex.
Claims(t) == t \in Consumers /\ pc[t] = "c_cas" /\ pc'[t] # "c_retry"

\* nPublished, nClaimed: how many elements were published, and claimed.
MonCount(t) ==
    /\ nPublished' = IF Publishes(t) THEN nPublished + 1 ELSE nPublished
    /\ nClaimed' = IF Claims(t) THEN nClaimed + 1 ELSE nClaimed

\* pushed, popped: the elements published, in the order of the AtomicAdd, and
\* the elements the successful pops return, in the order of their CAS.
MonElements(t) ==
    /\ pushed' = IF Publishes(t) THEN Append(pushed, a_data[t]) ELSE pushed
    /\ popped' = IF Claims(t) THEN Append(popped, a_data[t]) ELSE popped

\* No element is published and unclaimed.
QueueEmpty == m_writeIndex = m_readIndex \/ nPublished <= nClaimed

QueueEmptyNext == m_writeIndex' = m_readIndex' \/ nPublished' <= nClaimed'

\* liveAtRead: published minus claimed at the instant push reads m_readIndex.
MonLive(t) ==
    liveAtRead' = IF t = Producer /\ pc[Producer] = "p_readR"
                     THEN nPublished - nClaimed
                     ELSE liveAtRead

\* sawEmpty[c]: the queue was empty at some instant of c's current (or last) pop,
\* from the state it was called in to the state it returned in.
MonEmpty(t) ==
    sawEmpty' = [c \in Consumers |->
                    IF c = t /\ pc[c] = "idle" THEN QueueEmpty \/ QueueEmptyNext
                    ELSE IF pc[c] # "idle" THEN sawEmpty[c] \/ QueueEmptyNext
                    ELSE sawEmpty[c]]

\* dirty[t]: t's current (or last) call changed an index, a slot or the count.
MonDirty(t) ==
    dirty' = [dirty EXCEPT ![t] =
                 (IF pc[t] = "idle" THEN FALSE ELSE @) \/ queueVars' # queueVars]

\* The record of the call of thread t that returns in this step.
Entry(t) ==
    [op    |-> IF t = Producer THEN "push"
               ELSE IF t \in Consumers THEN "pop"
               ELSE IF ret'[t] = "size" THEN "size" ELSE "full",
     ok    |-> ret'[t],
     val   |-> IF t = Producer THEN a_data[t]
               ELSE IF t \in Consumers THEN a_data'[t]
               ELSE sizeRet',
     empty |-> (m_writeIndex' = m_readIndex')]

\* hist: the completed calls, in the order of their returns.
MonHist(t) ==
    hist' = IF pc'[t] = "idle" THEN Append(hist, Entry(t)) ELSE hist

\* The reference: a bounded FIFO of capacity Q_SIZE - 1, given the call of
\* thread t when it returns.
MonRef(t) ==
    IF pc'[t] # "idle"
       THEN UNCHANGED refVars
       ELSE IF t = Producer
               THEN IF Len(refFifo) < Q_SIZE - 1
                       THEN /\ refFifo' = Append(refFifo, a_data[Producer])
                            /\ refExpect' = [t |-> t, ok |-> "true", val |-> 0]
                       ELSE /\ refFifo' = refFifo
                            /\ refExpect' = [t |-> t, ok |-> "false", val |-> 0]
               ELSE IF refFifo # <<>>
                       THEN /\ refFifo' = Tail(refFifo)
                            /\ refExpect' = [t |-> t, ok |-> "true", val |-> Head(refFifo)]
                       ELSE /\ refFifo' = refFifo
                            /\ refExpect' = [t |-> t, ok |-> "false", val |-> 0]

\* raceDone[c]: consumer c has seen pop fail since the race started.
MonRace(t) ==
    /\ raceDone' = IF racing /\ t \in Consumers /\ pc'[t] = "idle" /\ ret'[t] = "false"
                      THEN [raceDone EXCEPT ![t] = TRUE]
                      ELSE raceDone
    /\ UNCHANGED <<racing, preload>>

\* The larger of two numbers.
Max(a, b) == IF a >= b THEN a ELSE b

\* everFull: Q_SIZE - 1 elements were published and unclaimed at some instant.
\* obsMaxLive: the most elements published and unclaimed at any instant of
\* the observer's current (or last) size() or full().
MonObs(t) ==
    /\ everFull' = (everFull \/ nPublished' - nClaimed' = Q_SIZE - 1)
    /\ obsMaxLive' = IF t = Observer /\ pc[Observer] = "idle"
                        THEN nPublished - nClaimed
                        ELSE IF pc[Observer] # "idle"
                                THEN Max(obsMaxLive, nPublished' - nClaimed')
                                ELSE obsMaxLive

\* overwritten[c]: while consumer c holds a copy of a slot and has not yet
\* done its CAS, push stored into that slot.
MonOverwrite(t) ==
    overwritten' = [c \in Consumers |->
        IF pc'[c] # "c_cas" THEN FALSE
        ELSE IF c = t THEN FALSE
        ELSE IF /\ t = Producer
                /\ pc[Producer] = "p_store"
                /\ countToIndex(currentWriteIndex[Producer])
                      = countToIndex(currentReadIndex[c])
                THEN TRUE
                ELSE overwritten[c]]

\* casSince[c]: since consumer c read m_readIndex in its current pop, the
\* CAS of another consumer's pop succeeded.
MonCas(t) ==
    casSince' = [c \in Consumers |->
        IF pc'[c] \in {"idle", "c_readR"} THEN FALSE
        ELSE IF c # t /\ Claims(t) THEN TRUE
        ELSE casSince[c]]

\* popTick flips in the step in which a pop call returns.
MonTick(t) ==
    popTick' = IF t \in Consumers /\ pc[t] # "idle" /\ pc'[t] = "idle"
                  THEN ~popTick
                  ELSE popTick

\* The element of the next push: the elements are numbered in push order.
NextElement == nPublished + 1

\* ------------------------------------------------------------ the threads

PopCall(c) == pc[c] = "idle" /\ PopReadWrite(c)

PopRetry(c) == pc[c] = "c_retry" /\ PopReadWrite(c)

\* ------------------------------------------------- Spec: concurrent threads
\* One producer and NumConsumers consumers, every interleaving of their
\* steps, without LOCK_FREE_Q_KEEP_REAL_SIZE.

Init ==
    /\ InitQueue
    /\ InitThreads
    /\ InitHistory
    /\ keepRealSize = FALSE

Watch(t) ==
    /\ MonCount(t)
    /\ MonElements(t)
    /\ MonLive(t)
    /\ MonEmpty(t)
    /\ UNCHANGED <<keepRealSize, dirty, hist, refVars, raceVars, obsVars, popVars>>

Next ==
    \/ nPublished < MaxPush /\ PushReadWrite(NextElement) /\ Watch(Producer)
    \/ PushReadRead /\ Watch(Producer)
    \/ PushStore /\ Watch(Producer)
    \/ PushPublish /\ Watch(Producer)
    \/ \E c \in Consumers : PopCall(c) /\ Watch(c)
    \/ \E c \in Consumers : PopRetry(c) /\ Watch(c)
    \/ \E c \in Consumers : PopReadRead(c) /\ Watch(c)
    \/ \E c \in Consumers : PopCopy(c) /\ Watch(c)
    \/ \E c \in Consumers : PopCasOk(c) /\ Watch(c)
    \/ \E c \in Consumers : PopCasFail(c) /\ Watch(c)

Spec == Init /\ [][Next]_vars

\* ------------------------------------- SpecCount: concurrent, with m_count
\* The same threads, in both builds (with and without
\* LOCK_FREE_Q_KEEP_REAL_SIZE).

InitCount ==
    /\ InitQueue
    /\ InitThreads
    /\ InitHistory
    /\ keepRealSize \in BOOLEAN

WatchCount(t) ==
    /\ MonCount(t)
    /\ MonDirty(t)
    /\ UNCHANGED <<keepRealSize, histVars, liveAtRead, sawEmpty, hist, refVars,
                   raceVars, obsVars, popVars>>

NextCount ==
    \/ nPublished < MaxPushCount /\ PushReadWrite(NextElement) /\ WatchCount(Producer)
    \/ PushReadRead /\ WatchCount(Producer)
    \/ PushStore /\ WatchCount(Producer)
    \/ PushPublish /\ WatchCount(Producer)
    \/ PushCount /\ WatchCount(Producer)
    \/ \E c \in Consumers : PopCall(c) /\ WatchCount(c)
    \/ \E c \in Consumers : PopRetry(c) /\ WatchCount(c)
    \/ \E c \in Consumers : PopReadRead(c) /\ WatchCount(c)
    \/ \E c \in Consumers : PopCopy(c) /\ WatchCount(c)
    \/ \E c \in Consumers : PopCasOk(c) /\ WatchCount(c)
    \/ \E c \in Consumers : PopCasFail(c) /\ WatchCount(c)
    \/ \E c \in Consumers : PopCount(c) /\ WatchCount(c)

SpecCount == InitCount /\ [][NextCount]_vars

\* ------------------------------------ SpecHist: recorded sequential calls
\* push, pop, size and full called one after the other (a call starts only
\* when no call is in progress) on a freshly constructed queue, in both
\* builds; every completed call is recorded.

WatchHist(t) ==
    /\ MonCount(t)
    /\ MonHist(t)
    /\ UNCHANGED <<keepRealSize, histVars, liveAtRead, sawEmpty, dirty, refVars,
                   raceVars, obsVars, popVars>>

MayCall == AllIdle /\ Len(hist) < MaxOps

NextHist ==
    \/ MayCall /\ PushReadWrite(NextElement) /\ WatchHist(Producer)
    \/ PushReadRead /\ WatchHist(Producer)
    \/ PushStore /\ WatchHist(Producer)
    \/ PushPublish /\ WatchHist(Producer)
    \/ PushCount /\ WatchHist(Producer)
    \/ \E c \in Consumers : MayCall /\ PopCall(c) /\ WatchHist(c)
    \/ \E c \in Consumers : PopReadRead(c) /\ WatchHist(c)
    \/ \E c \in Consumers : PopCopy(c) /\ WatchHist(c)
    \/ \E c \in Consumers : PopCasOk(c) /\ WatchHist(c)
    \/ \E c \in Consumers : PopCount(c) /\ WatchHist(c)
    \/ MayCall /\ SizeCall /\ WatchHist(Observer)
    \/ SizeReadRead /\ WatchHist(Observer)
    \/ MayCall /\ FullCall /\ WatchHist(Observer)
    \/ FullReadRead /\ WatchHist(Observer)

SpecHist == InitCount /\ [][NextHist]_vars

\* ----------------------------------------- SpecSeq: long sequential runs
\* push and pop called one after the other, long enough for the counters to
\* overflow, beside the reference FIFO.

WatchSeq(t) ==
    /\ MonCount(t)
    /\ MonElements(t)
    /\ MonRef(t)
    /\ UNCHANGED <<keepRealSize, liveAtRead, sawEmpty, dirty, hist, raceVars, obsVars,
                   popVars>>

NextSeq ==
    \/ AllIdle /\ nPublished < MaxSeqPush /\ PushReadWrite(NextElement) /\ WatchSeq(Producer)
    \/ PushReadRead /\ WatchSeq(Producer)
    \/ PushStore /\ WatchSeq(Producer)
    \/ PushPublish /\ WatchSeq(Producer)
    \/ \E c \in Consumers : AllIdle /\ PopCall(c) /\ WatchSeq(c)
    \/ \E c \in Consumers : PopReadRead(c) /\ WatchSeq(c)
    \/ \E c \in Consumers : PopCopy(c) /\ WatchSeq(c)
    \/ \E c \in Consumers : PopCasOk(c) /\ WatchSeq(c)

SpecSeq == Init /\ [][NextSeq]_vars

\* ------------------------------- SpecPreload: consumers race, no producer
\* The queue is loaded by sequential calls; then the consumers call pop
\* concurrently, each until its pop fails, and no push runs.

\* The elements published and not claimed.
Live == SubSeq(pushed, Len(popped) + 1, Len(pushed))

WatchLoad(t) ==
    /\ MonCount(t)
    /\ MonElements(t)
    /\ MonRace(t)
    /\ UNCHANGED <<keepRealSize, liveAtRead, sawEmpty, dirty, hist, refVars, obsVars,
                   popVars>>

\* A sequential push while the queue is loaded.
LoadPush ==
    /\ ~racing
    /\ AllIdle
    /\ nPublished < MaxLoad
    /\ PushReadWrite(NextElement)

StartRace ==
    /\ ~racing
    /\ AllIdle
    /\ racing' = TRUE
    /\ preload' = Live
    /\ UNCHANGED <<queueVars, keepRealSize, localVars, countVars, histVars,
                   liveAtRead, sawEmpty, dirty, hist, refVars, raceDone, obsVars,
                   popVars>>

\* A sequential pop while the queue is loaded.
LoadPop(c) ==
    /\ ~racing
    /\ AllIdle
    /\ PopCall(c)

\* A pop of the race: each consumer calls pop until it fails.
RacePop(c) ==
    /\ racing
    /\ ~raceDone[c]
    /\ PopCall(c)

NextPreload ==
    \/ LoadPush /\ WatchLoad(Producer)
    \/ PushReadRead /\ WatchLoad(Producer)
    \/ PushStore /\ WatchLoad(Producer)
    \/ PushPublish /\ WatchLoad(Producer)
    \/ StartRace
    \/ \E c \in Consumers : LoadPop(c) /\ WatchLoad(c)
    \/ \E c \in Consumers : RacePop(c) /\ WatchLoad(c)
    \/ \E c \in Consumers : PopRetry(c) /\ WatchLoad(c)
    \/ \E c \in Consumers : PopReadRead(c) /\ WatchLoad(c)
    \/ \E c \in Consumers : PopCopy(c) /\ WatchLoad(c)
    \/ \E c \in Consumers : PopCasOk(c) /\ WatchLoad(c)
    \/ \E c \in Consumers : PopCasFail(c) /\ WatchLoad(c)

SpecPreload == Init /\ [][NextPreload]_vars

\* ----------------------- SpecObs: size() and full() beside push and pop
\* One producer, the consumers and a thread that calls size() and full(),
\* every interleaving of their steps, without LOCK_FREE_Q_KEEP_REAL_SIZE.

WatchObs(t) ==
    /\ MonCount(t)
    /\ UNCHANGED <<keepRealSize, histVars, liveAtRead, sawEmpty, dirty, hist, refVars,
                   raceVars, obsVars, popVars>>

NextObs ==
    \/ nPublished < MaxPushObs /\ PushReadWrite(NextElement) /\ WatchObs(Producer)
    \/ PushReadRead /\ WatchObs(Producer)
    \/ PushStore /\ WatchObs(Producer)
    \/ PushPublish /\ WatchObs(Producer)
    \/ \E c \in Consumers : PopCall(c) /\ WatchObs(c)
    \/ \E c \in Consumers : PopRetry(c) /\ WatchObs(c)
    \/ \E c \in Consumers : PopReadRead(c) /\ WatchObs(c)
    \/ \E c \in Consumers : PopCopy(c) /\ WatchObs(c)
    \/ \E c \in Consumers : PopCasOk(c) /\ WatchObs(c)
    \/ \E c \in Consumers : PopCasFail(c) /\ WatchObs(c)
    \/ SizeCall /\ WatchObs(Observer)
    \/ SizeReadRead /\ WatchObs(Observer)
    \/ FullCall /\ WatchObs(Observer)
    \/ FullReadRead /\ WatchObs(Observer)

SpecObs == Init /\ [][NextObs]_vars

\* ------------- SpecLap: size() and full() overlapping sequential push, pop
\* push and pop are called one after the other (by one thread at a time),
\* while another thread calls size() and full(): its two reads of the
\* indices may be any number of push and pop calls apart.  Without
\* LOCK_FREE_Q_KEEP_REAL_SIZE.

\* No push and no pop is in progress.
WorkersIdle == \A t \in {Producer} \cup Consumers : pc[t] = "idle"

WatchLap(t) ==
    /\ MonCount(t)
    /\ MonObs(t)
    /\ UNCHANGED <<keepRealSize, histVars, liveAtRead, sawEmpty, dirty, hist, refVars,
                   raceVars, popVars>>

NextLap ==
    \/ WorkersIdle /\ nPublished < MaxPushLap /\ PushReadWrite(NextElement) /\ WatchLap(Producer)
    \/ PushReadRead /\ WatchLap(Producer)
    \/ PushStore /\ WatchLap(Producer)
    \/ PushPublish /\ WatchLap(Producer)
    \/ \E c \in Consumers : WorkersIdle /\ PopCall(c) /\ WatchLap(c)
    \/ \E c \in Consumers : PopReadRead(c) /\ WatchLap(c)
    \/ \E c \in Consumers : PopCopy(c) /\ WatchLap(c)
    \/ \E c \in Consumers : PopCasOk(c) /\ WatchLap(c)
    \/ SizeCall /\ WatchLap(Observer)
    \/ SizeReadRead /\ WatchLap(Observer)
    \/ FullCall /\ WatchLap(Observer)
    \/ FullReadRead /\ WatchLap(Observer)

SpecLap == Init /\ [][NextLap]_vars

\* ------------------------------ SpecSlot: concurrent, the slots are reused
\* One producer and the consumers, every interleaving of their steps, with
\* enough pushes for the producer to come back to the first slot; what
\* happens to a slot between a pop's copy and its CAS is recorded.  Without
\* LOCK_FREE_Q_KEEP_REAL_SIZE.

WatchSlot(t) ==
    /\ MonCount(t)
    /\ MonOverwrite(t)
    /\ UNCHANGED <<keepRealSize, histVars, liveAtRead, sawEmpty, dirty, hist, refVars, raceVars,
                   obsVars, casSince, popTick>>

NextSlot ==
    \/ nPublished < MaxPushSlot /\ PushReadWrite(NextElement) /\ WatchSlot(Producer)
    \/ PushReadRead /\ WatchSlot(Producer)
    \/ PushStore /\ WatchSlot(Producer)
    \/ PushPublish /\ WatchSlot(Producer)
    \/ \E c \in Consumers : PopCall(c) /\ WatchSlot(c)
    \/ \E c \in Consumers : PopRetry(c) /\ WatchSlot(c)
    \/ \E c \in Consumers : PopReadRead(c) /\ WatchSlot(c)
    \/ \E c \in Consumers : PopCopy(c) /\ WatchSlot(c)
    \/ \E c \in Consumers : PopCasOk(c) /\ WatchSlot(c)
    \/ \E c \in Consumers : PopCasFail(c) /\ WatchSlot(c)

SpecSlot == Init /\ [][NextSlot]_vars

\* ------------------------------- SpecFair: concurrent, every thread runs
\* One producer that makes finitely many pushes and the consumers, every
\* interleaving in which a thread that is inside a call is not suspended
\* for ever (the threads are preemptible OS threads).  Without
\* LOCK_FREE_Q_KEEP_REAL_SIZE.

WatchFair(t) ==
    /\ MonCount(t)
    /\ MonCas(t)
    /\ MonTick(t)
    /\ UNCHANGED <<keepRealSize, histVars, liveAtRead, sawEmpty, dirty, hist, refVars,
                   raceVars, obsVars, overwritten>>

\* A step of push after its first.
ProducerRun ==
    \/ PushReadRead /\ WatchFair(Producer)
    \/ PushStore /\ WatchFair(Producer)
    \/ PushPublish /\ WatchFair(Producer)

\* A step of consumer c's pop after its first.
ConsumerRun(c) ==
    \/ PopRetry(c) /\ WatchFair(c)
    \/ PopReadRead(c) /\ WatchFair(c)
    \/ PopCopy(c) /\ WatchFair(c)
    \/ PopCasOk(c) /\ WatchFair(c)
    \/ PopCasFail(c) /\ WatchFair(c)

NextFair ==
    \/ nPublished < MaxPushFair /\ PushReadWrite(NextElement) /\ WatchFair(Producer)
    \/ ProducerRun
    \/ \E c \in Consumers : PopCall(c) /\ WatchFair(c)
    \/ \E c \in Consumers : ConsumerRun(c)

Fairness ==
    /\ WF_vars(ProducerRun)
    /\ \A c \in Consumers : WF_vars(ConsumerRun(c))

SpecFair == Init /\ [][NextFair]_vars /\ Fairness

\* ------------------------------ SpecOne: one producer and one consumer
\* The producer and a single consumer, every interleaving of their steps.
\* long enough for the counters to overflow.  Without
\* LOCK_FREE_Q_KEEP_REAL_SIZE.  The branch of pop after a failed CAS is not
\* among the steps: with one consumer nothing writes m_readIndex between
\* the consumer's read of it and its CAS.

\* The one consumer that calls pop.
SoleConsumer == CHOOSE c \in Consumers : TRUE

WatchOne(t) ==
    /\ MonCount(t)
    /\ MonElements(t)
    /\ UNCHANGED <<keepRealSize, liveAtRead, sawEmpty, dirty, hist, refVars, raceVars,
                   obsVars, popVars>>

NextOne ==
    \/ nPublished < MaxPushOne /\ PushReadWrite(NextElement) /\ WatchOne(Producer)
    \/ PushReadRead /\ WatchOne(Producer)
    \/ PushStore /\ WatchOne(Producer)
    \/ PushPublish /\ WatchOne(Producer)
    \/ PopCall(SoleConsumer) /\ WatchOne(SoleConsumer)
    \/ PopReadRead(SoleConsumer) /\ WatchOne(SoleConsumer)
    \/ PopCopy(SoleConsumer) /\ WatchOne(SoleConsumer)
    \/ PopCasOk(SoleConsumer) /\ WatchOne(SoleConsumer)

SpecOne == Init /\ [][NextOne]_vars

\* ----------------------------------------------------------------- claims

IsPrefix(a, b) == Len(a) <= Len(b) /\ a = SubSeq(b, 1, Len(a))

\* C1: with one producer and two or more consumers, the values of the
\* successful pops, in the order of their CAS, are a prefix of the values
\* pushed, in push order: nothing reordered, duplicated, skipped or invented.
C1_PoppedIsPrefixOfPushed == IsPrefix(popped, pushed)

\* C2: in every reachable state m_writeIndex - m_readIndex is the number of
\* elements published and not yet claimed, and lies in 0 .. Q_SIZE - 1; the
\* read index never exceeds the write index.
C2_IndexDifferenceIsLiveCount ==
    /\ m_readIndex <= m_writeIndex
    /\ m_writeIndex - m_readIndex \in 0 .. (Q_SIZE - 1)
    /\ m_writeIndex - m_readIndex = nPublished - nClaimed

\* C5: push returns failure if and only if the queue holds exactly
\* Q_SIZE - 1 published and unclaimed elements at the instant push reads
\* m_readIndex.
C5_PushFailsIffFull ==
    ret[Producer] # "none" =>
        (ret[Producer] = "false" <=> liveAtRead = Q_SIZE - 1)

\* C6: a pop returns failure only if the queue was empty at some instant
\* between the pop's invocation and its return.
C6_PopFailsOnlyIfEmpty ==
    \A c \in Consumers : ret[c] = "false" => sawEmpty[c]

\* The values of the successful pops since the race started.
RacePops == SubSeq(popped, Len(pushed) - Len(preload) + 1, Len(popped))

PushesOnly(k) == k <= Len(hist) /\ \A i \in 1 .. k : hist[i].op = "push"

\* The recorded call number i exists, is op and returned ok.
Did(i, op, ok) == i <= Len(hist) /\ hist[i].op = op /\ hist[i].ok = ok

\* The recorded call number i, if it exists and is op, returned ok.
IfDid(i, op, ok) == (i <= Len(hist) /\ hist[i].op = op) => hist[i].ok = ok

\* C4: on a fresh queue exactly Q_SIZE - 1 consecutive pushes succeed; full()
\* is then true (and was not before) and the next push fails; after one
\* successful pop exactly one more push succeeds and the push after it fails.
C4_CapacityBoundary ==
    LET cap == Q_SIZE - 1 IN
    /\ \A k \in 1 .. Len(hist) :
          PushesOnly(k - 1) =>
             /\ IfDid(k, "push", IF k <= cap THEN "true" ELSE "false")
             /\ IfDid(k, "full", IF k - 1 >= cap THEN "true" ELSE "false")
    /\ \A j \in {0, 1} :
          (PushesOnly(cap + j) /\ Did(cap + j + 1, "pop", hist[cap + j + 1].ok)) =>
             /\ hist[cap + j + 1].ok = "true"
             /\ hist[cap + j + 1].val = 1
             /\ IfDid(cap + j + 2, "push", "true")
             /\ Did(cap + j + 2, "push", "true") => IfDid(cap + j + 3, "push", "false")
             /\ Did(cap + j + 2, "push", "true") => IfDid(cap + j + 3, "full", "true")

\* C4's case: Q_SIZE - 1 pushes, a failed push, a pop, a push and a failed push.
C4_Witness ==
    LET cap == Q_SIZE - 1 IN
    /\ Len(hist) = cap + 4
    /\ PushesOnly(cap + 1)
    /\ hist[cap + 1].ok = "false"
    /\ Did(cap + 2, "pop", "true")
    /\ Did(cap + 3, "push", "true")
    /\ Did(cap + 4, "push", "false")

\* C7: a push or a pop that returns failure has left m_writeIndex,
\* m_readIndex, every slot and m_count as they were.
C7_FailureChangesNothing ==
    \A t \in {Producer} \cup Consumers : ret[t] = "false" => ~dirty[t]

\* C7's case: a push failed and a pop failed after its CAS lost a race.
C7_Witness ==
    /\ ret[Producer] = "false"
    /\ \E c \in Consumers : ret[c] = "false" /\ nClaimed > 0
    /\ keepRealSize

\* The queue's indices were equal when the recorded call number i was made.
EmptyBefore(i) == i = 1 \/ hist[i - 1].empty

\* C8: pop on a fresh queue fails; and in a sequential run a successful push
\* on an empty queue followed at once by a successful pop leaves the queue
\* empty: the pop returns the pushed element, size() then returns 0 and the
\* next pop fails.
C8_EmptyBoundary ==
    /\ IfDid(1, "pop", "false")
    /\ \A i \in 1 .. Len(hist) :
          (Did(i, "push", "true") /\ EmptyBefore(i) /\ Did(i + 1, "pop", "true")) =>
             /\ hist[i + 1].empty
             /\ hist[i + 1].val = hist[i].val
             /\ IfDid(i + 2, "pop", "false")
             /\ (i + 2 <= Len(hist) /\ hist[i + 2].op = "size") => hist[i + 2].val = 0

\* C8's case: after an earlier push and pop, a push and a pop and then size().
C8_Witness ==
    /\ Len(hist) >= 5
    /\ Did(1, "push", "true")
    /\ Did(2, "pop", "true")
    /\ Did(3, "push", "true")
    /\ Did(4, "pop", "true")
    /\ hist[5].op = "size"

\* C9: in a sequential run of any length the queue answers every push and
\* pop as a bounded FIFO of capacity Q_SIZE - 1 does: the same success flag
\* and, for a pop, the same element (compared when the call has returned).
C9_SequentialRunsMatchReference ==
    (refExpect.ok # "none" /\ AllIdle) =>
        /\ ret[refExpect.t] = refExpect.ok
        /\ (refExpect.t \in Consumers /\ refExpect.ok = "true") =>
              a_data[refExpect.t] = refExpect.val

\* C10: across the overflow of the counters, consecutive counter values map
\* to consecutive slots modulo Q_SIZE, and push and pop keep the FIFO order
\* and the bound of Q_SIZE - 1 elements.
C10_OverflowKeepsSlotsAndFifo ==
    /\ countToIndex(Inc(m_writeIndex)) = (countToIndex(m_writeIndex) + 1) % Q_SIZE
    /\ countToIndex(Inc(m_readIndex)) = (countToIndex(m_readIndex) + 1) % Q_SIZE
    /\ IsPrefix(popped, pushed)
    /\ nPublished - nClaimed \in 0 .. (Q_SIZE - 1)

\* C11: without m_count, full() running beside pushes and pops returns true
\* only if the queue held exactly Q_SIZE - 1 published and unclaimed elements
\* at some instant up to the return.
C11_FullTrueOnlyIfWasFull == ret[Observer] = "true" => everFull

\* C12: size() without m_count reads m_writeIndex and then m_readIndex in two
\* steps; when the m_readIndex it reads is larger than its m_writeIndex
\* snapshot it returns Q_SIZE + currentWriteIndex - currentReadIndex, also
\* when the queue held at most one element throughout the call.
C12_SizeLappedReturnsNearFull ==
    [][(pc[Observer] = "s_readR" /\ pc'[Observer] = "idle"
           /\ m_readIndex > currentWriteIndex[Observer]) =>
          /\ ret'[Observer] = "size"
          /\ sizeRet' = (Q_SIZE + currentWriteIndex[Observer] + UINT_MOD - m_readIndex)
                            % UINT_MOD
          /\ (m_readIndex - currentWriteIndex[Observer] = 1 => sizeRet' = Q_SIZE - 1)]_vars

\* C12's case: size() has returned Q_SIZE - 1 although at most one element
\* was in the queue at every instant of the call.
C12_Witness ==
    /\ ret[Observer] = "size"
    /\ sizeRet = Q_SIZE - 1
    /\ obsMaxLive <= 1
    /\ Q_SIZE - 1 > 1

\* C19: without m_count every value size() returns lies in 0 .. Q_SIZE - 1,
\* whatever number of pushes and pops runs between its two reads.
C19_SizeWithinCapacity ==
    ret[Observer] = "size" => sizeRet \in 0 .. (Q_SIZE - 1)

\* C13: with LOCK_FREE_Q_KEEP_REAL_SIZE, m_count lies in 0 .. Q_SIZE - 1 in
\* every reachable state (it never goes below zero or wraps), and whenever
\* no push or pop is in progress it equals m_writeIndex - m_readIndex.
C13_CountIsExact ==
    keepRealSize =>
        /\ m_count \in 0 .. (Q_SIZE - 1)
        /\ WorkersIdle => m_count = m_writeIndex - m_readIndex

\* The number of counter positions p with m_readIndex <= p < m_writeIndex,
\* the counters being uint32_t.
LivePositions == (m_writeIndex + UINT_MOD - m_readIndex) % UINT_MOD

\* C14: in every reachable state, every counter position p from m_readIndex
\* up to m_writeIndex (the k-th of them being the k-th oldest element pushed
\* and not yet popped, which is the (p+1)-th successful push until a counter
\* overflows) has its element in slot countToIndex(p): the slot is stored
\* before m_writeIndex is incremented and no later push has overwritten it.
C14_LiveSlotsHoldPushedElements ==
    \A k \in 1 .. LivePositions :
        LET p == (m_readIndex + k - 1) % UINT_MOD
            n == nPublished - LivePositions + k
        IN  /\ n \in 1 .. Len(pushed)
            /\ m_theQueue[countToIndex(p)] = pushed[n]

\* Consumer c's CAS succeeds in this step.
CasSucceeds(c) == pc[c] = "c_cas" /\ pc'[c] \notin {"c_cas", "c_retry"}

\* C15: for every pop whose CAS succeeds, push did not store into the slot
\* between the pop's copy of it and the CAS, and the position copied was not
\* claimed by an earlier successful pop.
C15_CopyBeforeClaimIsSafe ==
    [][\A c \in Consumers :
          CasSucceeds(c) => (~overwritten[c] /\ currentReadIndex[c] >= nClaimed)]_vars

\* C16: m_writeIndex is changed only by push, by exactly +1 and only in a
\* push that returns true; m_readIndex is changed only by a successful CAS of
\* pop, by exactly +1 from the value that pop read; neither is decreased or
\* reset (+1 is uint32_t's); size() and full() change no shared state.
C16_IndicesMoveOnlyByOne ==
    [][/\ m_writeIndex' # m_writeIndex =>
             /\ pc[Producer] = "p_inc"
             /\ m_writeIndex' = Inc(m_writeIndex)
             /\ pc'[Producer] \in {"idle", "p_count"}
             /\ pc'[Producer] = "idle" => ret'[Producer] = "true"
       /\ (pc[Producer] = "p_count" /\ pc'[Producer] = "idle") => ret'[Producer] = "true"
       /\ (pc'[Producer] = "idle" /\ ret'[Producer] = "false") => m_writeIndex' = m_writeIndex
       /\ m_readIndex' # m_readIndex =>
             \E c \in Consumers :
                /\ CasSucceeds(c)
                /\ m_readIndex = currentReadIndex[c]
                /\ m_readIndex' = Inc(m_readIndex)
       /\ pc'[Observer] # pc[Observer] => queueVars' = queueVars]_vars

\* C16's case: pushes and pops have moved both indices, a CAS has failed and
\* size() or full() has returned.
C16_Witness ==
    /\ m_writeIndex >= 2
    /\ m_readIndex >= 1
    /\ \E c \in Consumers : pc[c] = "c_retry"
    /\ ret[Observer] # "none"
\* Some consumer is inside pop.
InPop == \E c \in Consumers : pc[c] # "idle"

\* C17: a pop's CAS fails only if another consumer's CAS succeeded since this
\* pop read m_readIndex; and, the threads being scheduled fairly, whenever
\* some consumer is inside pop some pop call eventually returns.
C17_PopIsLockFree ==
    /\ [](\A c \in Consumers : pc[c] = "c_retry" => casSince[c])
    /\ \A b \in BOOLEAN : (InPop /\ popTick = b) ~> (popTick # b)

\* C17's case: a pop's CAS has failed after another pop's CAS succeeded.
C17_Witness == \E c \in Consumers : pc[c] = "c_retry" /\ casSince[c]

\* C20: the producer making finitely many pushes and the threads being
\* scheduled fairly, every pop call of every consumer eventually returns.
C20_EveryPopReturns ==
    \A c \in Consumers : (pc[c] # "idle") ~> (pc[c] = "idle")

\* C20's case: the pushes are over and a consumer is about to start its loop
\* over after a failed CAS.
C20_Witness ==
    /\ nPublished = MaxPushFair
    /\ pc[Producer] = "idle"
    /\ \E c \in Consumers : pc[c] = "c_retry"
\* C18: with one producer and one consumer, under every interleaving,
\* m_readIndex <= m_writeIndex <= m_readIndex + Q_SIZE - 1 (in the counters'
\* uint32_t arithmetic), every successful pop returns the oldest element
\* pushed and not yet delivered, and the CAS of pop never fails (its
\* condition holds whenever the consumer is at it).
C18_OneConsumerIsFifo ==
    /\ LivePositions \in 0 .. (Q_SIZE - 1)
    /\ LivePositions = nPublished - nClaimed
    /\ IsPrefix(popped, pushed)
    /\ pc[SoleConsumer] = "c_cas" =>
          /\ m_readIndex = currentReadIndex[SoleConsumer]
          /\ Len(popped) < Len(pushed)
          /\ a_data[SoleConsumer] = pushed[Len(popped) + 1]

=============================================================================
